---- MODULE Spec2Model ----
(***************************************************************************)
(* gosker: the SOCKS5 rule registry (App), its start/stop lifecycle and    *)
(* the per-instance TrafficCounter, modelled from src/app.go.              *)
(*                                                                         *)
(* App.mu is held by an API call from entry to return.  A call that never  *)
(* blocks while it holds App.mu is one step.  stopServerLocked blocks      *)
(* twice (counter.mu.Lock at line 490, the bounded wait in                 *)
(* StatsListener.Close at line 449), so every call that reaches it         *)
(* (StopServer, UpdateRule, DeleteRule) is three steps; ctl is the         *)
(* position of that call.  A counting thread blocks in syncToRule          *)
(* (app.mu.Lock at line 89) while it holds the counter's mutex; the field  *)
(* locked of a TrafficCounter is that position.                            *)
(***************************************************************************)
EXTENDS Integers, Sequences, FiniteSets, TLC

VARIABLES
    rules,      \* App.rules: sequence of SocksRule
    servers,    \* App.servers: id -> server handle
    listeners,  \* App.listeners: id -> StatsListener
    counters,   \* App.counters: id -> address of a TrafficCounter
    heap,       \* the TrafficCounter objects, by address
    bound,      \* TCP ports held by open listeners of this process
    file,       \* content of gosker_rules.json
    pending,    \* go saveRules() goroutines that have not run yet
    mu,         \* App.mu: "free" or "api" (held by the API call in ctl)
    ctl,        \* the API call that is inside stopServerLocked, if any
    last        \* the API call that returned in the last step, with its result

vars == <<rules, servers, listeners, counters, heap, bound, file, pending, mu, ctl, last>>

----------------------------------------------------------------------------
(* Bounds of the model *)

MaxRules == 2       \* rules in the Registry when API calls run alone
MaxLive == 1        \* rules in the Registry when connections run beside them
MaxSlots == 2       \* TrafficCounter objects alive at the same time
MaxLiveSlots == 1   \* the same, when connections run beside the API calls
MaxConns == 1       \* accepted connections per TrafficCounter
MaxObserved == 2    \* bytes counted through one TrafficCounter
MaxTotal == 2       \* counting stops once the stored totals reach this
MaxPending == 1     \* go saveRules() goroutines outstanding

(* Program constants *)

SyncInterval == 3   \* CountUpload: time.Since(lastSync) > 3*time.Second
CloseTimeout == 1   \* StatsListener.Close: time.After(1 * time.Second)
SaveEvery == 10     \* syncToRule: i%10 == 0

----------------------------------------------------------------------------
(* Inputs *)

\* fmt.Sprintf("rule_%d", n)
RuleId(n) == "rule_" \o ToString(n)

IDs == {RuleId(n) : n \in 1..MaxRules}
InIDs == {"", RuleId(MaxRules)}
InPorts == {1080, 1081, 65536}
InBytes == {0, 1}
ChunkSizes == {0, 1}
Slots == 1..MaxSlots

InNames == {"", "proxy"}

\* the SocksRule values a caller passes, with an id of ids.  Name stands for the
\* string fields Name, Username and Password, NoAuth for the flags NoAuth and
\* EnableUDP; no call looks at them, they are stored and saved.
RuleInputs(ids) ==
    {[ID |-> id, Name |-> "", Port |-> p, NoAuth |-> FALSE, Running |-> run,
      UploadBytes |-> b, DownloadBytes |-> b] :
        id \in ids, p \in InPorts, run \in BOOLEAN, b \in InBytes}

\* rules as a Registry can hold them when it is saved: any id the program gives,
\* running or not, with every field taking more than one value
SavedInputs ==
    {[ID |-> id, Name |-> nm, Port |-> IF u = 0 THEN 1080 ELSE 1081, NoAuth |-> (nm = ""),
      Running |-> run, UploadBytes |-> u, DownloadBytes |-> 1 - u] :
        id \in IDs, nm \in InNames, run \in BOOLEAN, u \in InBytes}

----------------------------------------------------------------------------
(* Maps and small helpers *)

EmptyMap == [k \in {} |-> 0]
MapPut(m, k, v) == [x \in (DOMAIN m) \cup {k} |-> IF x = k THEN v ELSE m[x]]
MapDel(m, k) == [x \in (DOMAIN m) \ {k} |-> m[x]]
Min(x, y) == IF x < y THEN x ELSE y

RECURSIVE SumBytes(_)
SumBytes(rs) ==
    IF rs = <<>> THEN 0
    ELSE Head(rs).UploadBytes + Head(rs).DownloadBytes + SumBytes(Tail(rs))

\* for i := range a.rules { if a.rules[i].ID == id { ...; break } }: the first
\* rule with this id, 0 when there is none
FindRule(rs, id) ==
    IF \E i \in 1..Len(rs) : rs[i].ID = id
    THEN CHOOSE i \in 1..Len(rs) : rs[i].ID = id /\ \A j \in 1..(i - 1) : rs[j].ID # id
    ELSE 0

RemoveAt(s, i) == [j \in 1..(Len(s) - 1) |-> IF j < i THEN s[j] ELSE s[j + 1]]

----------------------------------------------------------------------------
(* TrafficCounter objects *)

\* an unused address
FreeSlot ==
    [used |-> FALSE, ruleID |-> "", uploadBytes |-> 0, downloadBytes |-> 0,
     since |-> 0, locked |-> FALSE, conns |-> 0, closers |-> 0,
     seen |-> 0, wrote |-> 0, cred |-> 0]

\* NewTrafficCounter: zero accumulators, lastSync = time.Now().
\* since is time.Since(lastSync), kept up to SyncInterval + 1; locked is t.mu held
\* by a counting thread that is inside syncToRule; conns counts the
\* TrafficConnWrappers that hold this counter; closers counts the goroutines of
\* StatsListener.Close that still wait for t.mu.  seen (bytes passed to CountUpload
\* and CountDownload), wrote (those passed to CountUpload) and cred (bytes this
\* counter has added to a rule's totals) are history, no field of the program.
NewTrafficCounter(ruleID) ==
    [FreeSlot EXCEPT !.used = TRUE, !.ruleID = ruleID]

\* the App as one value
App ==
    [rules |-> rules, servers |-> servers, listeners |-> listeners,
     counters |-> counters, heap |-> heap, bound |-> bound, file |-> file,
     pending |-> pending]

Referenced(a, c) ==
    \/ \E id \in DOMAIN a.counters : a.counters[id] = c
    \/ \E id \in DOMAIN a.listeners : a.listeners[id].counter = c
    \/ a.heap[c].conns > 0
    \/ a.heap[c].locked
    \/ a.heap[c].closers > 0

\* garbage collection: a TrafficCounter nothing refers to is gone
Collect(a) ==
    [a EXCEPT !.heap = [c \in Slots |-> IF Referenced(a, c) THEN a.heap[c] ELSE FreeSlot]]

FreeSlots(a) == {c \in Slots : ~a.heap[c].used}

\* the address the next NewTrafficCounter stored under counters[id] gets: an unused
\* one, or the one counters[id] held when the assignment leaves nothing else
\* referring to it; 0 when the model has no address left
NewSlot(a, id) ==
    LET dropped == Collect([a EXCEPT !.counters = MapDel(@, id)])
    IN  IF FreeSlots(a) # {} THEN CHOOSE c \in FreeSlots(a) : \A d \in FreeSlots(a) : c <= d
        ELSE IF FreeSlots(dropped) # {}
             THEN CHOOSE c \in FreeSlots(dropped) : \A d \in FreeSlots(dropped) : c <= d
             ELSE 0

----------------------------------------------------------------------------
(* Persistence *)

\* encoding/json on the fields of SocksRule: a string is written between quotes, a
\* number in decimal, a flag as true or false, and read back from that text
JsonString(str) == "\"" \o str \o "\""
JsonNumber(n) == ToString(n)
JsonBool(b) == IF b THEN "true" ELSE "false"

JsonStrings == IDs \cup InNames \cup {""}
JsonNumbers == InPorts \cup (0..(MaxTotal + MaxObserved))

ParseString(text) == CHOOSE str \in JsonStrings : JsonString(str) = text
ParseNumber(text) == CHOOSE n \in JsonNumbers : JsonNumber(n) = text
ParseBool(text) == text = "true"

\* json.MarshalIndent of one SocksRule: an object with the struct's json tags
MarshalRule(r) ==
    [id |-> JsonString(r.ID), name |-> JsonString(r.Name), port |-> JsonNumber(r.Port),
     noAuth |-> JsonBool(r.NoAuth), running |-> JsonBool(r.Running),
     uploadBytes |-> JsonNumber(r.UploadBytes),
     downloadBytes |-> JsonNumber(r.DownloadBytes)]

\* json.Unmarshal of one object into a SocksRule
UnmarshalRule(o) ==
    [ID |-> ParseString(o.id), Name |-> ParseString(o.name), Port |-> ParseNumber(o.port),
     NoAuth |-> ParseBool(o.noAuth), Running |-> ParseBool(o.running),
     UploadBytes |-> ParseNumber(o.uploadBytes),
     DownloadBytes |-> ParseNumber(o.downloadBytes)]

\* saveRules that writes the rules as they are
saveRules_keepsRunning(a) ==
    [a EXCEPT !.file = [i \in 1..Len(a.rules) |-> MarshalRule(a.rules[i])]]

\* saveRules, lines 609-641: every rule is copied with Running = false and the
\* copies are written as a JSON array (the write succeeds)
saveRules(a) ==
    [a EXCEPT !.file = [i \in 1..Len(a.rules) |->
                           MarshalRule([a.rules[i] EXCEPT !.Running = FALSE])]]

\* loadRules, lines 644-685: the array is read back, a record with a blank id gets
\* rule_<position>, and the result replaces the rule list.  The empty file stands
\* for no file as well: both leave a new App with no rule.
loadRules(a) ==
    [a EXCEPT !.rules = [i \in 1..Len(a.file) |->
                            LET r == UnmarshalRule(a.file[i])
                            IN  IF r.ID = "" THEN [r EXCEPT !.ID = RuleId(i)] ELSE r]]

----------------------------------------------------------------------------
(* The API calls, as functions of the App.  Each returns the App after the  *)
(* call and the value the call returns.                                     *)

\* AddRule, lines 208-222
addRule(a, rule) ==
    LET id == IF rule.ID = "" THEN RuleId(Len(a.rules) + 1) ELSE rule.ID
        a1 == [a EXCEPT !.rules = Append(@, [rule EXCEPT !.ID = id])]
    IN  [a |-> saveRules(a1), ret |-> id]

\* net.Listen("tcp", ":port"): the port is a TCP port and no listener holds it
CanBind(a, port) == port >= 0 /\ port <= 65535 /\ port \notin a.bound

\* startServerLocked that goes on when net.Listen has failed
startServerLocked_ignoresBindError(a, id) ==
    LET i == FindRule(a.rules, id)
        c == NewSlot(a, id)
        a1 == Collect([a EXCEPT !.counters = MapPut(@, id, c),
                                !.heap[c] = NewTrafficCounter(id)])
        port == a.rules[i].Port
        a2 == [a1 EXCEPT !.bound = @ \cup {port},
                         !.servers = MapPut(@, id, c),
                         !.listeners = MapPut(@, id, [port |-> port, counter |-> c]),
                         !.rules[i].Running = TRUE]
    IN  IF i = 0 THEN [a |-> a, ret |-> FALSE, note |-> "notfound"]
        ELSE IF a.rules[i].Running THEN [a |-> a, ret |-> TRUE, note |-> "already"]
        ELSE IF c = 0 THEN [a |-> a, ret |-> FALSE, note |-> "full"]
        ELSE [a |-> saveRules(a2), ret |-> TRUE, note |-> "started"]

\* startServerLocked without the test of rule.Running at line 312
startServerLocked_startsAgain(a, id) ==
    LET i == FindRule(a.rules, id)
        c == NewSlot(a, id)
        a1 == Collect([a EXCEPT !.counters = MapPut(@, id, c),
                                !.heap[c] = NewTrafficCounter(id)])
        port == a.rules[i].Port
        a2 == [a1 EXCEPT !.bound = @ \cup {port},
                         !.servers = MapPut(@, id, c),
                         !.listeners = MapPut(@, id, [port |-> port, counter |-> c]),
                         !.rules[i].Running = TRUE]
    IN  IF i = 0 THEN [a |-> a, ret |-> FALSE, note |-> "notfound"]
        ELSE IF c = 0 THEN [a |-> a, ret |-> FALSE, note |-> "full"]
        ELSE IF ~CanBind(a1, port) THEN [a |-> a1, ret |-> FALSE, note |-> "bind"]
        ELSE [a |-> saveRules(a2), ret |-> TRUE, note |-> "started"]

\* startServerLocked that registers the TrafficCounter before it looks for the rule
startServerLocked_registersFirst(a, id) ==
    LET i == FindRule(a.rules, id)
        c == NewSlot(a, id)
        a1 == Collect([a EXCEPT !.counters = MapPut(@, id, c),
                                !.heap[c] = NewTrafficCounter(id)])
        port == a.rules[i].Port
        a2 == [a1 EXCEPT !.bound = @ \cup {port},
                         !.servers = MapPut(@, id, c),
                         !.listeners = MapPut(@, id, [port |-> port, counter |-> c]),
                         !.rules[i].Running = TRUE]
    IN  IF c = 0 THEN [a |-> a, ret |-> FALSE, note |-> "full"]
        ELSE IF i = 0 THEN [a |-> a1, ret |-> FALSE, note |-> "notfound"]
        ELSE IF a.rules[i].Running THEN [a |-> a, ret |-> TRUE, note |-> "already"]
        ELSE IF ~CanBind(a1, port) THEN [a |-> a1, ret |-> FALSE, note |-> "bind"]
        ELSE [a |-> saveRules(a2), ret |-> TRUE, note |-> "started"]

\* startServerLocked, lines 296-400.  note tells the outcomes apart: "notfound",
\* "already" (line 313), "bind" (line 355), "started", and "full" when the model has
\* no address left for the new TrafficCounter.
startServerLocked(a, id) ==
    LET i == FindRule(a.rules, id)
        c == NewSlot(a, id)
        a1 == Collect([a EXCEPT !.counters = MapPut(@, id, c),
                                !.heap[c] = NewTrafficCounter(id)])
        port == a.rules[i].Port
        a2 == [a1 EXCEPT !.bound = @ \cup {port},
                         !.servers = MapPut(@, id, c),
                         !.listeners = MapPut(@, id, [port |-> port, counter |-> c]),
                         !.rules[i].Running = TRUE]
    IN  IF i = 0 THEN [a |-> a, ret |-> FALSE, note |-> "notfound"]
        ELSE IF a.rules[i].Running THEN [a |-> a, ret |-> TRUE, note |-> "already"]
        ELSE IF c = 0 THEN [a |-> a, ret |-> FALSE, note |-> "full"]
        ELSE IF ~CanBind(a1, port) THEN [a |-> a1, ret |-> FALSE, note |-> "bind"]
        ELSE [a |-> saveRules(a2), ret |-> TRUE, note |-> "started"]

\* stopServerLocked without the test of rule.Running at line 481
stopServerLocked_mark_anyRule(a, id) ==
    LET i == FindRule(a.rules, id)
    IN  IF i = 0
        THEN [a |-> a, ret |-> FALSE]
        ELSE [a |-> [a EXCEPT !.rules[i].Running = FALSE], ret |-> TRUE]

\* stopServerLocked, lines 471-486: find the rule; absent or not running returns
\* false; otherwise mark it stopped and go on (ret TRUE)
stopServerLocked_mark(a, id) ==
    LET i == FindRule(a.rules, id)
    IN  IF i = 0 \/ ~a.rules[i].Running
        THEN [a |-> a, ret |-> FALSE]
        ELSE [a |-> [a EXCEPT !.rules[i].Running = FALSE], ret |-> TRUE]

\* stopServerLocked that deletes the counter without adding its accumulators
stopServerLocked_drain_noFlush(a, id) ==
    [a EXCEPT !.counters = MapDel(@, id), !.servers = MapDel(@, id)]

\* stopServerLocked, lines 488-506, entered with counter.mu free: add the
\* counter's accumulators to the first rule with this id (the accumulators are left
\* as they are), then delete(a.counters, id), delete(a.servers, id)
stopServerLocked_drain(a, id) ==
    LET i == FindRule(a.rules, id)
        c == a.counters[id]
        t == a.heap[c]
        a1 == IF id \in DOMAIN a.counters /\ (t.uploadBytes > 0 \/ t.downloadBytes > 0) /\ i # 0
              THEN [a EXCEPT !.rules[i].UploadBytes = @ + t.uploadBytes,
                             !.rules[i].DownloadBytes = @ + t.downloadBytes,
                             !.heap[c].cred = @ + t.uploadBytes + t.downloadBytes]
              ELSE a
    IN  [a1 EXCEPT !.counters = MapDel(@, id), !.servers = MapDel(@, id)]

\* StatsListener.Close that gives up when the wait for the counter's mutex times
\* out: the underlying listener stays open
StatsListenerClose_givesUpOnTimeout(a, l) ==
    LET c == l.counter
    IN  IF a.heap[c].locked
        THEN [a EXCEPT !.heap = [d \in Slots |->
                  IF ~a.heap[d].used THEN a.heap[d]
                  ELSE [a.heap[d] EXCEPT
                          !.since = Min(@ + CloseTimeout, SyncInterval + 1),
                          !.closers = IF d = c THEN @ + 1 ELSE @]]]
        ELSE [a EXCEPT !.bound = @ \ {l.port}]

\* StatsListener.Close, lines 425-460, of the listener l: a goroutine locks
\* l.counter.mu and signals; Close waits for the signal or CloseTimeout, then closes
\* the underlying listener.  With the mutex free the goroutine signals at once; with
\* the mutex held it stays behind, and CloseTimeout passes for every counter.
StatsListenerClose(a, l) ==
    LET c == l.counter
        a1 == IF a.heap[c].locked
              THEN [a EXCEPT !.heap = [d \in Slots |->
                        IF ~a.heap[d].used THEN a.heap[d]
                        ELSE [a.heap[d] EXCEPT
                                !.since = Min(@ + CloseTimeout, SyncInterval + 1),
                                !.closers = IF d = c THEN @ + 1 ELSE @]]]
              ELSE a
    IN  [a1 EXCEPT !.bound = @ \ {l.port}]

\* stopServerLocked that gives up when listener.Close() returns an error
stopServerLocked_close_stopsOnError(a, id, err) ==
    LET a1 == IF id \in DOMAIN a.listeners
              THEN IF err THEN StatsListenerClose(a, a.listeners[id])
                   ELSE [StatsListenerClose(a, a.listeners[id]) EXCEPT
                            !.listeners = MapDel(@, id)]
              ELSE a
    IN  IF err /\ id \in DOMAIN a.listeners THEN a1 ELSE saveRules(a1)

\* stopServerLocked, lines 508-521: close and forget the listener, save, return
\* true.  err is what listener.Close() returns: an error is printed and nothing
\* else (the descriptor, and with it the port, is released all the same).
stopServerLocked_close(a, id, err) ==
    LET a1 == IF id \in DOMAIN a.listeners
              THEN [StatsListenerClose(a, a.listeners[id]) EXCEPT !.listeners = MapDel(@, id)]
              ELSE a
    IN  saveRules(a1)

\* UpdateRule that stores the caller's UploadBytes and DownloadBytes
updateRule_apply_callerBytes(a, rule, i, origUp, origDown, wasRunning) ==
    LET a1 == [a EXCEPT !.rules[i] = rule]
        st == startServerLocked(a1, rule.ID)
        a2 == IF wasRunning /\ rule.Running THEN st.a ELSE a1
    IN  [a |-> saveRules(a2), ret |-> TRUE,
         note |-> IF wasRunning /\ rule.Running THEN st.note ELSE ""]

\* UpdateRule after the loop has found rule.ID at index i and the old instance (if
\* it was running) has been stopped, lines 242-256
updateRule_apply(a, rule, i, origUp, origDown, wasRunning) ==
    LET r == [rule EXCEPT !.UploadBytes = origUp, !.DownloadBytes = origDown]
        a1 == [a EXCEPT !.rules[i] = r]
        st == startServerLocked(a1, rule.ID)
        a2 == IF wasRunning /\ rule.Running THEN st.a ELSE a1
    IN  [a |-> saveRules(a2), ret |-> TRUE,
         note |-> IF wasRunning /\ rule.Running THEN st.note ELSE ""]

\* DeleteRule after the loop has found id at index i and the instance (if it was
\* running) has been stopped, lines 274-280
deleteRule_remove(a, i) ==
    [a |-> saveRules([a EXCEPT !.rules = RemoveAt(@, i)]), ret |-> TRUE]

\* stopServerLocked as a whole, for a caller that finds every counter's mutex free
\* and every listener.Close() without error
stopServerLocked(a, id) ==
    LET m == stopServerLocked_mark(a, id)
    IN  IF m.ret THEN stopServerLocked_close(stopServerLocked_drain(m.a, id), id, FALSE)
        ELSE a

RECURSIVE StopAll(_, _)
StopAll(a, ids) ==
    IF ids = {} THEN a
    ELSE LET id == CHOOSE x \in ids : TRUE
         IN  StopAll(stopServerLocked(a, id), ids \ {id})

\* shutdown, lines 177-198: save, stop every id of a.servers, make the maps anew
shutdown(a) ==
    [StopAll(saveRules(a), DOMAIN a.servers) EXCEPT
        !.servers = EmptyMap, !.listeners = EmptyMap, !.counters = EmptyMap]

\* ResetTrafficStats, lines 589-606
resetTrafficStats(a, id) ==
    LET i == FindRule(a.rules, id)
    IN  IF i = 0 THEN [a |-> a, ret |-> FALSE]
        ELSE [a |-> saveRules([a EXCEPT !.rules[i].UploadBytes = 0,
                                        !.rules[i].DownloadBytes = 0]),
              ret |-> TRUE]

\* GetTrafficStats, lines 575-586
getTrafficStats(a, id) ==
    LET i == FindRule(a.rules, id)
    IN  IF i = 0 THEN [up |-> 0, down |-> 0, ret |-> FALSE]
        ELSE [up |-> a.rules[i].UploadBytes, down |-> a.rules[i].DownloadBytes, ret |-> TRUE]

\* syncToRule that leaves the accumulators as they are
syncToRule_keepsAccumulators(a, c) ==
    LET t == a.heap[c]
        i == FindRule(a.rules, t.ruleID)
        a1 == [a EXCEPT !.rules[i].UploadBytes = @ + t.uploadBytes,
                        !.rules[i].DownloadBytes = @ + t.downloadBytes,
                        !.heap[c].cred = @ + t.uploadBytes + t.downloadBytes,
                        !.heap[c].since = 0,
                        !.pending = IF (i - 1) % SaveEvery = 0
                                    THEN Min(@ + 1, MaxPending) ELSE @]
    IN  IF i = 0 THEN a ELSE a1

\* syncToRule, lines 85-110, once app.mu is taken: the first rule with the counter's
\* id gets the accumulators, which are zeroed, lastSync is stamped, and with the
\* rule's (0-based) index a multiple of SaveEvery a saveRules goroutine is started;
\* without such a rule nothing changes.  Both mutexes are released on return.
syncToRule(a, c) ==
    LET t == a.heap[c]
        i == FindRule(a.rules, t.ruleID)
        a1 == [a EXCEPT !.rules[i].UploadBytes = @ + t.uploadBytes,
                        !.rules[i].DownloadBytes = @ + t.downloadBytes,
                        !.heap[c].cred = @ + t.uploadBytes + t.downloadBytes,
                        !.heap[c].uploadBytes = 0,
                        !.heap[c].downloadBytes = 0,
                        !.heap[c].since = 0,
                        !.pending = IF (i - 1) % SaveEvery = 0
                                    THEN Min(@ + 1, MaxPending) ELSE @]
    IN  IF i = 0 THEN a ELSE a1

\* CountUpload, lines 61-70, up to the call of syncToRule: with t.mu taken, add n;
\* when more than SyncInterval has passed since lastSync the thread goes into
\* syncToRule with t.mu held, otherwise t.mu is released on return
CountUpload(t, n) ==
    [t EXCEPT !.uploadBytes = @ + n, !.seen = @ + n, !.wrote = @ + n,
              !.locked = (t.since > SyncInterval)]

\* CountDownload, lines 73-82, likewise
CountDownload(t, n) ==
    [t EXCEPT !.downloadBytes = @ + n, !.seen = @ + n, !.locked = (t.since > SyncInterval)]

----------------------------------------------------------------------------
(* State machine *)

NoRule ==
    [ID |-> "", Name |-> "", Port |-> 0, NoAuth |-> FALSE, Running |-> FALSE,
     UploadBytes |-> 0, DownloadBytes |-> 0]
Idle ==
    [pc |-> "idle", op |-> "", id |-> "", rule |-> NoRule, i |-> 0, up |-> 0, down |-> 0,
     accUp |-> 0, accDown |-> 0]
\* an API call has returned ret; arg is the rule it was called with, for the calls
\* that take one and are looked at afterwards
ReturnedFor(op, id, ret, note, arg) ==
    [op |-> op, id |-> id, ret |-> ret, note |-> note, arg |-> arg]
Returned(op, id, ret, note) == ReturnedFor(op, id, ret, note, NoRule)
\* the last step was no return of an API call
NoReturn == Returned("", "", FALSE, "")

\* NewApp, lines 152-159; startup finds no configuration file
Init ==
    /\ rules = <<>>
    /\ servers = EmptyMap
    /\ listeners = EmptyMap
    /\ counters = EmptyMap
    /\ heap = [c \in Slots |-> FreeSlot]
    /\ bound = {}
    /\ file = <<>>
    /\ pending = 0
    /\ mu = "free"
    /\ ctl = Idle
    /\ last = Returned("NewApp", "", TRUE, "")

Install(a) ==
    LET b == Collect(a)
    IN  /\ rules' = b.rules
        /\ servers' = b.servers
        /\ listeners' = b.listeners
        /\ counters' = b.counters
        /\ heap' = b.heap
        /\ bound' = b.bound
        /\ file' = b.file
        /\ pending' = b.pending

\* a.mu.Lock() at the entry of an API call succeeds
CanEnter == mu = "free" /\ ctl.pc = "idle"

\* the call goes into stopServerLocked for a running rule and waits for counter.mu
\* (up, down: the totals UpdateRule read at lines 232-233; accUp, accDown: what the
\* live counter held unflushed at that moment)
EnterStop(op, id, rule, i) ==
    /\ Install(stopServerLocked_mark(App, id).a)
    /\ mu' = "api"
    /\ ctl' = [pc |-> "lockCounter", op |-> op, id |-> id, rule |-> rule, i |-> i,
               up |-> rules[i].UploadBytes, down |-> rules[i].DownloadBytes,
               accUp |-> IF id \in DOMAIN counters
                         THEN heap[counters[id]].uploadBytes ELSE 0,
               accDown |-> IF id \in DOMAIN counters
                           THEN heap[counters[id]].downloadBytes ELSE 0]
    /\ last' = NoReturn

AddRule(rule) ==
    /\ CanEnter
    /\ LET res == addRule(App, rule)
       IN  /\ Install(res.a)
           /\ last' = Returned("AddRule", res.ret, TRUE, "")
    /\ UNCHANGED <<mu, ctl>>

UpdateRule(rule) ==
    /\ CanEnter
    /\ LET i == FindRule(rules, rule.ID)
       IN  IF i = 0
           THEN /\ last' = Returned("UpdateRule", rule.ID, FALSE, "notfound")
                /\ UNCHANGED <<rules, servers, listeners, counters, heap, bound, file,
                               pending, mu, ctl>>
           ELSE IF rules[i].Running
           THEN EnterStop("UpdateRule", rule.ID, rule, i)
           ELSE LET res == updateRule_apply(App, rule, i, rules[i].UploadBytes,
                                            rules[i].DownloadBytes, FALSE)
                IN  /\ Install(res.a)
                    /\ last' = ReturnedFor("UpdateRule", rule.ID, res.ret, res.note, rule)
                    /\ UNCHANGED <<mu, ctl>>

DeleteRule(id) ==
    /\ CanEnter
    /\ LET i == FindRule(rules, id)
       IN  IF i = 0
           THEN /\ last' = Returned("DeleteRule", id, FALSE, "notfound")
                /\ UNCHANGED <<rules, servers, listeners, counters, heap, bound, file,
                               pending, mu, ctl>>
           ELSE IF rules[i].Running
           THEN EnterStop("DeleteRule", id, NoRule, i)
           ELSE LET res == deleteRule_remove(App, i)
                IN  /\ Install(res.a)
                    /\ last' = Returned("DeleteRule", id, res.ret, "")
                    /\ UNCHANGED <<mu, ctl>>

StartServer(id) ==
    /\ CanEnter
    /\ LET res == startServerLocked(App, id)
       IN  /\ res.note # "full"
           /\ Install(res.a)
           /\ last' = Returned("StartServer", id, res.ret, res.note)
    /\ UNCHANGED <<mu, ctl>>

StopServer(id) ==
    /\ CanEnter
    /\ LET res == stopServerLocked_mark(App, id)
       IN  IF res.ret
           THEN EnterStop("StopServer", id, NoRule, FindRule(rules, id))
           ELSE /\ Install(res.a)
                /\ last' = Returned("StopServer", id, FALSE, "")
                /\ UNCHANGED <<mu, ctl>>

\* counter.mu.Lock() at line 490 succeeds (or there is no counter to lock)
StopDrain ==
    /\ ctl.pc = "lockCounter"
    /\ ctl.id \in DOMAIN counters => ~heap[counters[ctl.id]].locked
    /\ Install(stopServerLocked_drain(App, ctl.id))
    /\ ctl' = [ctl EXCEPT !.pc = "closeListener"]
    /\ last' = NoReturn
    /\ UNCHANGED mu

\* the rest of stopServerLocked and of the call that made it, up to a.mu.Unlock()
StopClose(err) ==
    /\ ctl.pc = "closeListener"
    /\ err => ctl.id \in DOMAIN listeners
    /\ LET a1 == stopServerLocked_close(App, ctl.id, err)
           closed == IF err THEN "closeerr" ELSE ""
           res == CASE ctl.op = "UpdateRule" ->
                         updateRule_apply(a1, ctl.rule, ctl.i, ctl.up, ctl.down, TRUE)
                    [] ctl.op = "DeleteRule" ->
                         [a |-> deleteRule_remove(a1, ctl.i).a, ret |-> TRUE, note |-> closed]
                    [] OTHER -> [a |-> a1, ret |-> TRUE, note |-> closed]
       IN  /\ res.note # "full"
           /\ Install(res.a)
           /\ last' = ReturnedFor(ctl.op, ctl.id, res.ret, res.note, ctl.rule)
    /\ mu' = "free"
    /\ ctl' = Idle

ResetTrafficStats(id) ==
    /\ CanEnter
    /\ LET res == resetTrafficStats(App, id)
       IN  /\ Install(res.a)
           /\ last' = Returned("ResetTrafficStats", id, res.ret, "")
    /\ UNCHANGED <<mu, ctl>>

\* GetTrafficStats, lines 575-586: reads the totals, changes nothing
GetTrafficStats(id) ==
    /\ CanEnter
    /\ last' = Returned("GetTrafficStats", id, getTrafficStats(App, id).ret, "")
    /\ UNCHANGED <<rules, servers, listeners, counters, heap, bound, file, pending, mu, ctl>>

\* StatsListener.Accept, lines 411-422: a new TrafficConnWrapper on the listener's counter
Accept(id) ==
    /\ id \in DOMAIN listeners
    /\ heap[listeners[id].counter].conns < MaxConns
    /\ Install([App EXCEPT !.heap[listeners[id].counter].conns = @ + 1])
    /\ last' = NoReturn
    /\ UNCHANGED <<mu, ctl>>

\* a connection ends (not while its thread is inside CountUpload/CountDownload)
ConnClose(c) ==
    /\ heap[c].conns > (IF heap[c].locked THEN 1 ELSE 0)
    /\ Install([App EXCEPT !.heap[c].conns = @ - 1])
    /\ last' = NoReturn
    /\ UNCHANGED <<mu, ctl>>

CanCount(c, n) ==
    /\ heap[c].conns > 0
    /\ ~heap[c].locked
    /\ heap[c].seen + n <= MaxObserved
    /\ n > 0 => SumBytes(rules) < MaxTotal

\* TrafficConnWrapper.Write, lines 143-149: n bytes written
Write(c, n) ==
    /\ CanCount(c, n)
    /\ Install(IF n > 0 THEN [App EXCEPT !.heap[c] = CountUpload(@, n)] ELSE App)
    /\ last' = NoReturn
    /\ UNCHANGED <<mu, ctl>>

\* TrafficConnWrapper.Read, lines 134-140: n bytes read
Read(c, n) ==
    /\ CanCount(c, n)
    /\ Install(IF n > 0 THEN [App EXCEPT !.heap[c] = CountDownload(@, n)] ELSE App)
    /\ last' = NoReturn
    /\ UNCHANGED <<mu, ctl>>

\* t.app.mu.Lock() at line 89 succeeds; syncToRule runs and both mutexes are released
SyncToRule(c) ==
    /\ heap[c].locked
    /\ mu = "free"
    /\ Install([syncToRule(App, c) EXCEPT !.heap[c].locked = FALSE])
    /\ last' = NoReturn
    /\ UNCHANGED <<mu, ctl>>

\* one time unit passes
Tick ==
    /\ \E c \in Slots : heap[c].used /\ heap[c].since <= SyncInterval
    /\ heap' = [c \in Slots |->
                  IF heap[c].used
                  THEN [heap[c] EXCEPT !.since = Min(@ + 1, SyncInterval + 1)]
                  ELSE heap[c]]
    /\ last' = NoReturn
    /\ UNCHANGED <<rules, servers, listeners, counters, bound, file, pending, mu, ctl>>

\* a goroutine started by syncToRule runs saveRules (it takes no lock)
AsyncSave ==
    /\ pending > 0
    /\ Install([saveRules(App) EXCEPT !.pending = @ - 1])
    /\ last' = NoReturn
    /\ UNCHANGED <<mu, ctl>>

\* a goroutine left behind by StatsListener.Close gets the counter's mutex and ends
CloseWaiter(c) ==
    /\ heap[c].closers > 0
    /\ ~heap[c].locked
    /\ Install([App EXCEPT !.heap[c].closers = @ - 1])
    /\ last' = NoReturn
    /\ UNCHANGED <<mu, ctl>>

\* shutdown: the application is closed (no counting thread holds a counter's mutex)
Shutdown ==
    /\ CanEnter
    /\ last.op # "shutdown"
    /\ \A c \in Slots : ~heap[c].locked
    /\ Install(shutdown(App))
    /\ last' = Returned("shutdown", "", TRUE, "")
    /\ UNCHANGED <<mu, ctl>>

\* NewApp and startup, lines 152-174, in the process started after a shutdown: the
\* file is all that is left of the old process
Startup ==
    /\ last.op = "shutdown"
    /\ rules' = loadRules(App).rules
    /\ servers' = EmptyMap
    /\ listeners' = EmptyMap
    /\ counters' = EmptyMap
    /\ heap' = [c \in Slots |-> FreeSlot]
    /\ bound' = {}
    /\ pending' = 0
    /\ last' = Returned("startup", "", TRUE, "")
    /\ UNCHANGED <<file, mu, ctl>>

\* what the frontend passes to AddRule (a blank id, not running, no traffic) and
\* to UpdateRule, on one port
LiveAdds == {r \in RuleInputs({""}) : r.Port = 1080 /\ ~r.Running /\ r.UploadBytes = 0}
LiveUpdates == {r \in RuleInputs(IDs) : r.Port = 1080 /\ r.UploadBytes = 0}

\* StartServer(id) makes a TrafficCounter
Allocates(id) == FindRule(rules, id) # 0 /\ ~rules[FindRule(rules, id)].Running
LiveSlots == Cardinality({c \in Slots : heap[c].used})

\* the API calls and the connection threads, timers and goroutines beside them
Next ==
    \/ \E rule \in LiveAdds : Len(rules) < MaxLive /\ AddRule(rule)
    \/ \E rule \in LiveUpdates : UpdateRule(rule)
    \/ \E id \in IDs : DeleteRule(id)
    \/ \E id \in IDs : (Allocates(id) => LiveSlots < MaxLiveSlots) /\ StartServer(id)
    \/ \E id \in IDs : StopServer(id)
    \/ StopDrain
    \/ \E err \in BOOLEAN : StopClose(err)
    \/ \E id \in IDs : ResetTrafficStats(id)
    \/ \E id \in IDs : Accept(id)
    \/ \E c \in Slots : ConnClose(c)
    \/ \E c \in Slots, n \in ChunkSizes : Write(c, n)
    \/ \E c \in Slots, n \in ChunkSizes : Read(c, n)
    \/ \E c \in Slots : SyncToRule(c)
    \/ Tick
    \/ AsyncSave
    \/ \E c \in Slots : CloseWaiter(c)

Spec == Init /\ [][Next]_vars

\* one instance's traffic: rules are added, started and stopped while connections
\* read and write and the periodic flush runs
NextTraffic ==
    \/ \E rule \in LiveAdds : Len(rules) < MaxLive /\ AddRule(rule)
    \/ \E id \in IDs : (Allocates(id) => LiveSlots < MaxLiveSlots) /\ StartServer(id)
    \/ \E id \in IDs : StopServer(id)
    \/ StopDrain
    \/ \E err \in BOOLEAN : StopClose(err)
    \/ \E id \in IDs : Accept(id)
    \/ \E c \in Slots : ConnClose(c)
    \/ \E c \in Slots, n \in ChunkSizes : Write(c, n)
    \/ \E c \in Slots, n \in ChunkSizes : Read(c, n)
    \/ \E c \in Slots : SyncToRule(c)
    \/ Tick
    \/ AsyncSave
    \/ \E c \in Slots : CloseWaiter(c)

SpecTraffic == Init /\ [][NextTraffic]_vars

\* the same, with the thread that is inside stopServerLocked scheduled: once
\* counter.mu is released it runs on through listener.Close(), whose select
\* (lines 449-455) returns when the goroutine signals or when the timer fires
SpecTrafficFair ==
    SpecTraffic /\ WF_vars(\E err \in BOOLEAN : StopClose(err))

\* Registries of up to MaxRules rules, as AddRule calls leave them: the rules as
\* given, saved, nothing started
InitSaved ==
    /\ \E n \in 0..MaxRules : rules \in [1..n -> SavedInputs]
    /\ servers = EmptyMap
    /\ listeners = EmptyMap
    /\ counters = EmptyMap
    /\ heap = [c \in Slots |-> FreeSlot]
    /\ bound = {}
    /\ file = saveRules([rules |-> rules, file |-> <<>>]).file
    /\ pending = 0
    /\ mu = "free"
    /\ ctl = Idle
    /\ last = Returned("AddRule", "", TRUE, "")

\* the application is closed and opened again
NextPersist ==
    \/ Shutdown
    \/ Startup

SpecPersist == InitSaved /\ [][NextPersist]_vars

\* the API calls alone, with every rule value a caller can pass
NextApi ==
    \/ \E rule \in RuleInputs(InIDs) : Len(rules) < MaxRules /\ AddRule(rule)
    \/ \E rule \in RuleInputs(IDs) : UpdateRule(rule)
    \/ \E id \in IDs : DeleteRule(id)
    \/ \E id \in IDs : StartServer(id)
    \/ \E id \in IDs : StopServer(id)
    \/ StopDrain
    \/ \E err \in BOOLEAN : StopClose(err)
    \/ \E id \in IDs : ResetTrafficStats(id)
    \/ \E id \in IDs : GetTrafficStats(id)

SpecApi == Init /\ [][NextApi]_vars

----------------------------------------------------------------------------
(* Properties *)

RuleOf(id) == rules[FindRule(rules, id)]
Known(id) == FindRule(rules, id) # 0
AppVars == <<rules, servers, listeners, counters, heap, bound, file, pending>>

\* C1: lock order.  No thread asks for App.mu while it holds a TrafficCounter's
\* mutex: no counting thread is ever inside syncToRule (at app.mu.Lock, line 89)
\* with t.mu held.
C1_LockOrder ==
    \A c \in Slots : ~heap[c].locked

\* C2: stop never blocks for ever.  In no state does the call inside
\* stopServerLocked hold App.mu and wait for the counter's mutex (line 490) while a
\* counting thread holds that mutex and waits for App.mu (line 89).
C2_StopNeverDeadlocks ==
    ~(/\ ctl.pc = "lockCounter"
      /\ mu = "api"
      /\ ctl.id \in DOMAIN counters
      /\ heap[counters[ctl.id]].locked)

\* C3: flush-on-stop is exact.  When stopServerLocked drains a counter, every byte
\* the counter has observed is in the rule's totals, and at no time has a counter
\* added more bytes to the totals than it has observed.
C3_FlushOnStopExact ==
    [][/\ (StopDrain /\ ctl.id \in DOMAIN counters) =>
            heap'[counters[ctl.id]].cred = heap'[counters[ctl.id]].seen
       /\ \A c \in Slots : heap'[c].cred <= heap'[c].seen]_vars

\* C4: a rule with Running = true has an entry in servers and in listeners.
C4_RunningHasLiveEntries ==
    \A i \in 1..Len(rules) :
        rules[i].Running => rules[i].ID \in DOMAIN servers /\ rules[i].ID \in DOMAIN listeners

\* C5: no two rules of the Registry have the same id.
C5_UniqueIds ==
    \A i, j \in 1..Len(rules) : i # j => rules[i].ID # rules[j].ID

\* C6: when AddRule has returned an id, exactly one rule has that id, and its
\* UploadBytes and DownloadBytes are 0.
C6_AddRuleOneEntryZeroBytes ==
    (last.op = "AddRule" /\ ctl.pc = "idle") =>
        /\ Cardinality({i \in 1..Len(rules) : rules[i].ID = last.id}) = 1
        /\ \A i \in 1..Len(rules) :
              rules[i].ID = last.id => rules[i].UploadBytes = 0 /\ rules[i].DownloadBytes = 0

\* C7: a StartServer that fails to bind returns false and leaves the rule list and
\* the maps servers, listeners and counters as they were.
C7_BindFailureLeavesNothing ==
    [][\A id \in IDs :
          (StartServer(id) /\ last'.note = "bind") =>
              /\ last'.ret = FALSE
              /\ UNCHANGED <<rules, servers, listeners, counters>>]_vars

\* the instance of rule id listens on port p
RunningOn(id, p) ==
    /\ Known(id)
    /\ RuleOf(id).Running
    /\ id \in DOMAIN listeners
    /\ listeners[id].port = p

\* C8: port conflict.  With rule A running on port p, StartServer of another rule B
\* whose port is p and which is not running returns false, B stays not running, and
\* A's rule (running flag, totals), its entries in servers, listeners and counters
\* and its TrafficCounter are as before.
C8_PortConflict ==
    [][\A b \in IDs, x \in IDs :
          (/\ StartServer(b)
           /\ x # b
           /\ Known(b)
           /\ ~RuleOf(b).Running
           /\ RunningOn(x, RuleOf(b).Port)) =>
              /\ last'.ret = FALSE
              /\ ~rules'[FindRule(rules, b)].Running
              /\ rules'[FindRule(rules, x)] = RuleOf(x)
              /\ x \in DOMAIN servers' /\ servers'[x] = servers[x]
              /\ x \in DOMAIN listeners' /\ listeners'[x] = listeners[x]
              /\ x \in DOMAIN counters' /\ counters'[x] = counters[x]
              /\ heap'[counters[x]] = heap[counters[x]]
              /\ bound' = bound]_vars

\* C8 witness: StartServer(B) has just failed to bind while another rule runs on
\* B's port.
C8_Witness ==
    /\ last.op = "StartServer"
    /\ last.note = "bind"
    /\ ~last.ret
    /\ Known(last.id)
    /\ \E x \in IDs : x # last.id /\ RunningOn(x, RuleOf(last.id).Port)

\* C9: StartServer is idempotent.  On an id whose rule is running it returns true
\* and changes nothing; called right after the StartServer that started the
\* instance, it leaves the one server, listener and counter that call registered.
C9_StartIdempotent ==
    [][\A id \in IDs :
          (StartServer(id) /\ Known(id) /\ RuleOf(id).Running) =>
              /\ last'.ret = TRUE
              /\ UNCHANGED AppVars
              /\ (last = Returned("StartServer", id, TRUE, "started") =>
                    id \in DOMAIN servers' /\ id \in DOMAIN listeners' /\ id \in DOMAIN counters')]_vars

\* C9 witness: StartServer has returned true for a rule that was already running,
\* with its server, listener and counter registered.
C9_Witness ==
    /\ last = Returned("StartServer", last.id, TRUE, "already")
    /\ last.id \in DOMAIN servers
    /\ last.id \in DOMAIN listeners
    /\ last.id \in DOMAIN counters

\* C10: StopServer on an unknown id or on a rule that is not running returns false
\* and leaves the rule list and the maps (and all else) as they were.
C10_StopNotRunningNoop ==
    [][\A id \in IDs :
          (StopServer(id) /\ (~Known(id) \/ ~RuleOf(id).Running)) =>
              /\ last' = Returned("StopServer", id, FALSE, "")
              /\ UNCHANGED AppVars
              /\ UNCHANGED <<mu, ctl>>]_vars

\* C10 witness: StopServer has returned false for a rule that exists and is not
\* running while the Registry and the maps hold something to preserve.
C10_Witness ==
    /\ last = Returned("StopServer", last.id, FALSE, "")
    /\ Known(last.id)
    /\ ~RuleOf(last.id).Running
    /\ last.id \in DOMAIN counters
    /\ \E x \in IDs : x # last.id /\ x \in DOMAIN listeners

\* C11: UpdateRule on a rule that runs (Running = true, its listener open), with the
\* updated rule marked running and a port that can be bound once the old instance
\* is closed, returns true with servers, listeners and counters holding an
\* instance for the id, bound to the updated rule's port.
C11_UpdateRestartsInstance ==
    [][(/\ \E err \in BOOLEAN : StopClose(err)
        /\ ctl.op = "UpdateRule"
        /\ ctl.rule.Running
        /\ ctl.id \in DOMAIN listeners
        /\ CanBind(stopServerLocked_close(App, ctl.id, FALSE), ctl.rule.Port)) =>
            /\ last'.ret = TRUE
            /\ ctl.id \in DOMAIN servers'
            /\ ctl.id \in DOMAIN listeners'
            /\ ctl.id \in DOMAIN counters'
            /\ listeners'[ctl.id].port = ctl.rule.Port]_vars

\* C12: when UpdateRule returns true, the stored rule's UploadBytes and
\* DownloadBytes are those the entry had when the call was made (which the call
\* keeps in originalUploadBytes and originalDownloadBytes while it stops the old
\* instance), whatever the caller's rule holds.
C12_UpdateKeepsBytes ==
    [][/\ (ctl.pc = "idle" /\ ctl'.op = "UpdateRule") =>
              /\ ctl'.up = rules[ctl'.i].UploadBytes
              /\ ctl'.down = rules[ctl'.i].DownloadBytes
       /\ (ctl.op = "UpdateRule" /\ ctl'.op = "UpdateRule") =>
              ctl'.up = ctl.up /\ ctl'.down = ctl.down
       /\ (last'.op = "UpdateRule" /\ last'.ret) =>
              LET i == FindRule(rules, last'.id)
              IN  /\ rules'[i].UploadBytes =
                        (IF ctl.op = "UpdateRule" THEN ctl.up ELSE rules[i].UploadBytes)
                  /\ rules'[i].DownloadBytes =
                        (IF ctl.op = "UpdateRule" THEN ctl.down ELSE rules[i].DownloadBytes)]_vars

\* C12 witness: UpdateRule has returned true after stopping a running instance, and
\* the stored totals differ from those the caller passed.
C12_Witness ==
    /\ last.op = "UpdateRule"
    /\ last.ret
    /\ last.note = "already"
    /\ RuleOf(last.id).UploadBytes # last.arg.UploadBytes
    /\ RuleOf(last.id).DownloadBytes # last.arg.DownloadBytes

\* C13: end-to-end accounting.  A rule whose totals were zero when its instance
\* started, and to which only that instance's counter has added, is stopped by
\* StopServer after its connections wrote W bytes and read R bytes: the drain leaves
\* UploadBytes = W and DownloadBytes = R with Running = false, and StopServer returns
\* true with GetTrafficStats reporting these totals, periodic flushes or not.
C13_EndToEndAccounting ==
    [][/\ (/\ StopDrain
           /\ ctl.op = "StopServer"
           /\ ctl.id \in DOMAIN counters
           /\ RuleOf(ctl.id).UploadBytes + RuleOf(ctl.id).DownloadBytes
                 = heap[counters[ctl.id]].cred) =>
              LET t == heap[counters[ctl.id]]
                  r == rules'[FindRule(rules, ctl.id)]
              IN  /\ r.UploadBytes = t.wrote
                  /\ r.DownloadBytes = t.seen - t.wrote
                  /\ ~r.Running
       /\ ((\E err \in BOOLEAN : StopClose(err)) /\ ctl.op = "StopServer") =>
              /\ last'.op = "StopServer" /\ last'.id = ctl.id /\ last'.ret = TRUE
              /\ getTrafficStats([rules |-> rules'], ctl.id) = getTrafficStats(App, ctl.id)
              /\ getTrafficStats(App, ctl.id).ret
              /\ ~rules'[FindRule(rules, ctl.id)].Running]_vars

\* C13 witness: StopServer has returned true for a rule whose connection wrote one
\* byte, which a periodic flush carried to the rule, and read one byte, which the
\* stop drained; the totals are (1, 1).
C13_Witness ==
    /\ last = Returned("StopServer", last.id, TRUE, "")
    /\ getTrafficStats(App, last.id) = [up |-> 1, down |-> 1, ret |-> TRUE]
    /\ ~RuleOf(last.id).Running
    /\ \E c \in Slots :
          /\ heap[c].used
          /\ heap[c].ruleID = last.id
          /\ heap[c].wrote = 1
          /\ heap[c].seen = 2
          /\ heap[c].cred = 2
          /\ heap[c].uploadBytes = 0
          /\ heap[c].downloadBytes = 1

\* the TrafficCounter at address c belongs to the running instance of its rule
Live(c) == heap[c].ruleID \in DOMAIN counters /\ counters[heap[c].ruleID] = c

\* C14: ResetTrafficStats on an existing rule sets the stored totals to 0 and leaves
\* every TrafficCounter as it is.  After a reset of a stopped rule the totals stay
\* 0.  For a running rule the next flush of its live counter, periodic or by stop,
\* adds the counter's accumulators to the stored totals.
C14_ResetKeepsLiveCounter ==
    [][/\ \A id \in IDs :
              (ResetTrafficStats(id) /\ Known(id)) =>
                  /\ rules'[FindRule(rules, id)].UploadBytes = 0
                  /\ rules'[FindRule(rules, id)].DownloadBytes = 0
                  /\ heap' = heap
                  /\ counters' = counters
       /\ \A id \in IDs :
              (/\ last = Returned("ResetTrafficStats", id, TRUE, "")
               /\ ~RuleOf(id).Running
               /\ id \notin DOMAIN counters
               /\ FindRule(rules', id) = FindRule(rules, id)
               /\ ~rules'[FindRule(rules, id)].Running) =>
                  /\ rules'[FindRule(rules, id)].UploadBytes = 0
                  /\ rules'[FindRule(rules, id)].DownloadBytes = 0
       /\ \A c \in Slots :
              (SyncToRule(c) /\ Live(c) /\ Known(heap[c].ruleID)) =>
                  LET i == FindRule(rules, heap[c].ruleID)
                  IN  /\ rules'[i].UploadBytes = rules[i].UploadBytes + heap[c].uploadBytes
                      /\ rules'[i].DownloadBytes = rules[i].DownloadBytes + heap[c].downloadBytes
       /\ (StopDrain /\ ctl.id \in DOMAIN counters /\ Known(ctl.id)) =>
              LET i == FindRule(rules, ctl.id)
                  t == heap[counters[ctl.id]]
              IN  /\ rules'[i].UploadBytes = rules[i].UploadBytes + t.uploadBytes
                  /\ rules'[i].DownloadBytes = rules[i].DownloadBytes + t.downloadBytes]_vars

\* the rule list with every rule marked not running
Stopped(rs) == [i \in 1..Len(rs) |-> [rs[i] EXCEPT !.Running = FALSE]]

\* C15: persistence round trip.  In every state, saveRules followed by loadRules
\* gives the same sequence of rules (ids, configuration, byte counts) with
\* Running = false in each; every record of the file has running false; and the
\* rules a new process starts with are those of the file.
C15_PersistenceRoundTrip ==
    /\ loadRules(saveRules(App)).rules = Stopped(rules)
    /\ \A i \in 1..Len(file) : ~ParseBool(file[i].running)
    /\ last.op = "shutdown" => loadRules(App).rules = Stopped(rules)
    /\ last.op = "startup" => rules = Stopped(rules) /\ loadRules(App).rules = rules

\* C15 witness: a Registry of two rules, one marked running and one not, with
\* different names, ports and byte counts, has been saved at shutdown.
C15_Witness ==
    /\ last.op = "shutdown"
    /\ Len(rules) = 2
    /\ Len(file) = 2
    /\ rules[1].Running
    /\ ~rules[2].Running
    /\ rules[1].Name # rules[2].Name
    /\ rules[1].UploadBytes # rules[2].UploadBytes

\* the calls that look a rule up by id and report when there is none
LookupOps == {"UpdateRule", "DeleteRule", "StartServer", "GetTrafficStats", "ResetTrafficStats"}

\* C16: not found.  UpdateRule, DeleteRule, StartServer, GetTrafficStats and
\* ResetTrafficStats called with an id no rule has return their failure value and
\* leave the rule list, the maps servers, listeners and counters, and all else as
\* they were.
C16_NotFound ==
    [][(/\ ctl.pc = "idle"
        /\ last'.op \in LookupOps
        /\ ~Known(last'.id)) =>
            /\ last'.ret = FALSE
            /\ UNCHANGED AppVars
            /\ UNCHANGED <<mu, ctl>>]_vars

\* C16 witness: StartServer has returned false for an id no rule has, while another
\* rule runs.
C16_Witness ==
    /\ last.op = "StartServer"
    /\ ~last.ret
    /\ ~Known(last.id)
    /\ \E x \in IDs : Known(x) /\ RunningOn(x, RuleOf(x).Port) /\ x \in DOMAIN counters

\* C17: StopServer on a rule with Running = true goes on to the end and returns
\* true, also when listener.Close() returns an error: the rule then has
\* Running = false and servers, listeners and counters hold no entry for the id.
C17_StopSucceedsOnCloseError ==
    [][/\ \A id \in IDs :
              (StopServer(id) /\ Known(id) /\ RuleOf(id).Running) =>
                  ctl'.pc = "lockCounter" /\ ctl'.op = "StopServer" /\ ctl'.id = id
       /\ \A err \in BOOLEAN :
              (StopClose(err) /\ ctl.op = "StopServer") =>
                  /\ last'.op = "StopServer" /\ last'.id = ctl.id /\ last'.ret = TRUE
                  /\ ~rules'[FindRule(rules, ctl.id)].Running
                  /\ ctl.id \notin DOMAIN servers'
                  /\ ctl.id \notin DOMAIN listeners'
                  /\ ctl.id \notin DOMAIN counters']_vars

\* C17 witness: StopServer has returned true after closing the listener of a
\* running instance gave an error.
C17_Witness ==
    /\ last = Returned("StopServer", last.id, TRUE, "closeerr")
    /\ Known(last.id)
    /\ ~RuleOf(last.id).Running
    /\ last.id \notin DOMAIN listeners

\* C18: DeleteRule on an existing rule stops a running instance first and then
\* removes the rule: when it returns true no rule has the id, servers, listeners and
\* counters hold no entry for it, and the other rules are those of before, unchanged
\* and in the same order.
C18_DeleteRemovesRuleAndInstance ==
    [][/\ \A id \in IDs :
              (DeleteRule(id) /\ Known(id) /\ RuleOf(id).Running) =>
                  ctl'.pc = "lockCounter" /\ ctl'.op = "DeleteRule" /\ ctl'.id = id
       /\ (last'.op = "DeleteRule" /\ last'.ret) =>
              /\ \A j \in 1..Len(rules') : rules'[j].ID # last'.id
              /\ last'.id \notin DOMAIN servers'
              /\ last'.id \notin DOMAIN listeners'
              /\ last'.id \notin DOMAIN counters'
              /\ rules' = RemoveAt(rules, FindRule(rules, last'.id))]_vars

\* C19: presence in the runtime maps means running.  Whenever no call is inside
\* stopServerLocked, every id with an entry in servers, listeners or counters is the
\* id of a rule with Running = true, and the three maps have the same ids.
C19_MapEntryMeansRunning ==
    ctl.pc = "idle" =>
        /\ \A id \in DOMAIN servers \cup DOMAIN listeners \cup DOMAIN counters :
              Known(id) /\ RuleOf(id).Running
        /\ DOMAIN servers = DOMAIN listeners
        /\ DOMAIN listeners = DOMAIN counters

\* C20: the TrafficCounter of a stopped instance is dead.  A flush by a counter that
\* a.counters no longer holds (its StopServer has returned) leaves every rule's
\* UploadBytes and DownloadBytes as they were.
C20_DeadCounterNeverAdds ==
    [][\A c \in Slots :
          (SyncToRule(c) /\ ~Live(c)) =>
              /\ Len(rules') = Len(rules)
              /\ \A i \in 1..Len(rules) :
                    /\ rules'[i].UploadBytes = rules[i].UploadBytes
                    /\ rules'[i].DownloadBytes = rules[i].DownloadBytes]_vars

\* C21: every read or write of the rule list and of the maps is made by a thread
\* that holds App.mu.  So while an API call holds App.mu, the only steps that read
\* or write them are that call's own; the saveRules goroutine a flush started,
\* which reads the rule list, is no such step.
C21_AccessUnderLock ==
    [][mu = "api" =>
          \/ StopDrain
          \/ \E err \in BOOLEAN : StopClose(err)
          \/ /\ UNCHANGED <<rules, servers, listeners, counters>>
             /\ ~AsyncSave]_vars

\* C22: the saveRules goroutine is started on every 10th flush of an instance's
\* counter and on no other.  Every flush moves at least one byte (syncToRule is
\* called from CountUpload and CountDownload, after n > 0 was added), so a counter
\* that has moved k bytes has flushed at most k times: a flush that starts with
\* fewer than SaveEvery - 1 bytes moved is not the counter's 10th and must start no
\* goroutine.
C22_SaveEveryTenthFlush ==
    [][\A c \in Slots :
          (/\ SyncToRule(c)
           /\ Known(heap[c].ruleID)
           /\ heap[c].cred + 1 < SaveEvery
           /\ pending < MaxPending) =>
              pending' = pending]_vars

\* C23: StatsListener.Close goes on to close the underlying listener after at most
\* CloseTimeout, also while another thread holds the counter's mutex all along; it
\* never waits for that mutex without bound and never takes App.mu.  So (1) a call
\* that has come to listener.Close() can always take the step, whoever holds the
\* counter's mutex and with App.mu held by the caller itself; (2) the step lets at
\* most CloseTimeout pass, leaves the counter's mutex with its holder, leaves App.mu
\* with the caller until the return, forgets the listener and frees its port;
\* (3) every call that has come to listener.Close() returns.
C23_CloseBounded ==
    /\ [](ctl.pc = "closeListener" => ENABLED (\E err \in BOOLEAN : StopClose(err)))
    /\ [][(\E err \in BOOLEAN : StopClose(err)) /\ ctl.id \in DOMAIN listeners =>
             LET l == listeners[ctl.id]
             IN  /\ mu = "api"
                 /\ l.port \notin bound'
                 /\ ctl.id \notin DOMAIN listeners'
                 /\ heap[l.counter].locked => heap'[l.counter].locked
                 /\ \A d \in Slots :
                       heap[d].used /\ heap'[d].used =>
                           heap'[d].since <= heap[d].since + CloseTimeout]_vars
    /\ (ctl.pc = "closeListener") ~> (ctl.pc = "idle")

\* StopServer has returned after a Close that timed out: the counting thread still
\* holds the counter's mutex, the goroutine of Close still waits for it, and the
\* listener is closed
C23_Witness ==
    /\ last.op = "StopServer" /\ last.ret
    /\ last.id \notin DOMAIN listeners
    /\ bound = {}
    /\ \E c \in Slots :
          heap[c].used /\ heap[c].locked /\ heap[c].closers > 0 /\ heap[c].ruleID = last.id

\* C24: CountUpload(n) and CountDownload(n) add n to their accumulator and to
\* nothing else; the call goes into the flush exactly when more than SyncInterval
\* has passed since lastSync, and the rule list is as it was when the call has
\* counted.  A flush for a rule that exists adds the two accumulators to the rule's
\* UploadBytes and DownloadBytes, sets both to 0 and stamps lastSync, so that total
\* plus accumulator is the same before and after it, and changes no other rule.
C24_CountAndFlush ==
    [][\A c \in Slots :
          /\ \A n \in ChunkSizes \ {0} :
                /\ Write(c, n) =>
                      /\ heap'[c].uploadBytes = heap[c].uploadBytes + n
                      /\ heap'[c].downloadBytes = heap[c].downloadBytes
                      /\ heap'[c].locked = (heap[c].since > SyncInterval)
                      /\ heap'[c].since = heap[c].since
                      /\ rules' = rules
                /\ Read(c, n) =>
                      /\ heap'[c].downloadBytes = heap[c].downloadBytes + n
                      /\ heap'[c].uploadBytes = heap[c].uploadBytes
                      /\ heap'[c].locked = (heap[c].since > SyncInterval)
                      /\ heap'[c].since = heap[c].since
                      /\ rules' = rules
          /\ SyncToRule(c) /\ Known(heap[c].ruleID) =>
                LET i == FindRule(rules, heap[c].ruleID)
                IN  /\ Len(rules') = Len(rules)
                    /\ rules'[i].UploadBytes = rules[i].UploadBytes + heap[c].uploadBytes
                    /\ rules'[i].DownloadBytes =
                          rules[i].DownloadBytes + heap[c].downloadBytes
                    /\ heap'[c].uploadBytes = 0
                    /\ heap'[c].downloadBytes = 0
                    /\ heap'[c].since = 0
                    /\ rules'[i].UploadBytes + heap'[c].uploadBytes =
                          rules[i].UploadBytes + heap[c].uploadBytes
                    /\ rules'[i].DownloadBytes + heap'[c].downloadBytes =
                          rules[i].DownloadBytes + heap[c].downloadBytes
                    /\ \A j \in 1..Len(rules) :
                          /\ j # i => rules'[j] = rules[j]
                          /\ rules'[j] = [rules[j] EXCEPT
                                            !.UploadBytes = rules'[j].UploadBytes,
                                            !.DownloadBytes = rules'[j].DownloadBytes]]_vars

\* a live counter just after a flush that moved one byte written and one byte read
C24_Witness ==
    \E c \in Slots :
        /\ heap[c].used /\ Live(c) /\ Known(heap[c].ruleID)
        /\ heap[c].cred = 2 /\ heap[c].wrote = 1
        /\ heap[c].uploadBytes = 0 /\ heap[c].downloadBytes = 0
        /\ heap[c].since = 0 /\ ~heap[c].locked
        /\ RuleOf(heap[c].ruleID).UploadBytes = 1
        /\ RuleOf(heap[c].ruleID).DownloadBytes = 1

\* C25: the totals never go down.  Across every step of every operation but
\* ResetTrafficStats (and but the removal of a rule, after which the rule is no
\* more), a rule that exists before and after the step has UploadBytes and
\* DownloadBytes no smaller after it than before.
C25_TotalsMonotonic ==
    [][last'.op # "ResetTrafficStats" /\ Len(rules') >= Len(rules) =>
          \A i \in 1..Len(rules) :
              rules'[i].ID = rules[i].ID =>
                  /\ rules'[i].UploadBytes >= rules[i].UploadBytes
                  /\ rules'[i].DownloadBytes >= rules[i].DownloadBytes]_vars

\* C26: UpdateRule on a running rule loses no traffic.  The bytes the live counter
\* held unflushed when UpdateRule was called (ctl.accUp, ctl.accDown) are in the
\* rule's totals when UpdateRule returns: the totals are then at least what they
\* were at the call (ctl.up, ctl.down) plus those bytes.
C26_UpdateKeepsDrain ==
    [][(\E err \in BOOLEAN : StopClose(err)) /\ ctl.op = "UpdateRule" =>
          /\ rules'[ctl.i].UploadBytes >= ctl.up + ctl.accUp
          /\ rules'[ctl.i].DownloadBytes >= ctl.down + ctl.accDown]_vars

====
